---- MODULE Spec2Model ----
(***************************************************************************)
(* Model of langchain-summarizer/ai-workflow.ipynb: the SummarySchema      *)
(* record with its datePublished validator, the one-node summarize graph,  *)
(* the batch runner (stream_and_pretty_print over AGENTS) and the unit     *)
(* runner (summarize_article).                                             *)
(*                                                                         *)
(* Strings that the code inspects character by character (datePublished)   *)
(* are sequences of one-character strings.  Positions are 0-based as in    *)
(* the Python code; CharAt reads past the end as NUL, as the C string the  *)
(* CPython 3.11 parser walks over.                                         *)
(***************************************************************************)
EXTENDS Integers, Sequences, FiniteSets, TLC

VARIABLES
    platform,       \* C library behind datetime.strftime: "glibc" | "padded"
    v,              \* the datePublished string handed to SummarySchema on its own
    dpc,            \* "call" | "constructed" | "raised": where that construction is
    dres,           \* what validate_date did with v
    runner,         \* "batch" | "unit" | "direct" (the graph on a given message list)
    AGENTS,         \* the configured agents, in dictionary order
    url,            \* the URL the runner loads
    pc,             \* the runner's position
    html,           \* what page2string returned
    prompt,         \* the HumanMessage built from html
    agent_idx,      \* batch runner: how many entries of AGENTS were started
    message_index,  \* stream_and_pretty_print's local
    stdout,         \* everything printed, in order
    returned,       \* summarize_article's return value: <<>> or <<content>>
    error,          \* the exception that left the runner, or "none"
    fetches,        \* calls of requests.get in this run
    gpc,            \* the graph invocation's position
    messages,       \* the graph state's "messages" channel
    next_nodes,     \* the nodes the graph runs in its next step
    model_args,     \* the messages handed to model.ainvoke
    answer,         \* the language model's raw answer
    response,       \* the SummarySchema instance built from it
    invocations,    \* one record per graph invocation of this run
    trace,          \* the steps of this run, in order
    stream,         \* SpecStream: the snapshots an agent streams
    chunk_no        \* SpecStream: snapshots consumed

dateVars == <<v, dpc, dres>>

runVars == <<runner, AGENTS, url, pc, html, prompt, agent_idx, returned, fetches>>

graphVars == <<gpc, messages, next_nodes, model_args, answer, response,
               invocations, error, trace>>

printVars == <<message_index, stdout>>

streamVars == <<stream, chunk_no>>

vars == <<platform, dateVars, runVars, graphVars, printVars, streamVars>>

(***************************************************************************)
(* Characters and digit strings                                            *)
(***************************************************************************)
NUL == "NUL"

Digits == {"0", "1", "2", "3", "4", "5", "6", "7", "8", "9"}

DigitChars == <<"0", "1", "2", "3", "4", "5", "6", "7", "8", "9">>

DigitVal(c) == (CHOOSE i \in 1..10 : DigitChars[i] = c) - 1

CharAt(s, pos) == IF pos >= 0 /\ pos < Len(s) THEN s[pos + 1] ELSE NUL

\* parse_digits(p, &var, n): n ASCII digits starting at pos, or failure
HasDigits(s, pos, n) == \A k \in 0..(n - 1) : CharAt(s, pos + k) \in Digits

RECURSIVE DigitsVal(_, _, _)
DigitsVal(s, pos, n) ==
    IF n = 0 THEN 0
    ELSE DigitsVal(s, pos, n - 1) * 10 + DigitVal(CharAt(s, pos + n - 1))

\* the position of the first non-digit at or after pos
RECURSIVE SkipDigits(_, _)
SkipDigits(s, pos) ==
    IF CharAt(s, pos) \in Digits THEN SkipDigits(s, pos + 1) ELSE pos

(***************************************************************************)
(* The proleptic Gregorian calendar of the datetime module                 *)
(***************************************************************************)
MINYEAR == 1

MAXYEAR == 9999

DAYS_IN_MONTH == <<31, 28, 31, 30, 31, 30, 31, 31, 30, 31, 30, 31>>

is_leap(year) == year % 4 = 0 /\ (year % 100 # 0 \/ year % 400 = 0)

days_before_year(year) ==
    LET y == year - 1 IN y * 365 + (y \div 4) - (y \div 100) + (y \div 400)

days_in_month(year, month) ==
    IF month = 2 /\ is_leap(year) THEN 29 ELSE DAYS_IN_MONTH[month]

RECURSIVE days_before_month(_, _)
days_before_month(year, month) ==
    IF month = 1 THEN 0
    ELSE days_before_month(year, month - 1) + days_in_month(year, month - 1)

days_in_year(year) == IF is_leap(year) THEN 366 ELSE 365

ymd_to_ord(year, month, day) ==
    days_before_year(year) + days_before_month(year, month) + day

DI400Y == days_before_year(401)

DI100Y == days_before_year(101)

DI4Y == days_before_year(5)

\* ord_to_ymd: ordinal -> (year, month, day), 01-Jan-0001 being day 1
ord_to_ymd(ordinal) ==
    LET n0    == ordinal - 1
        n400  == n0 \div DI400Y
        r400  == n0 % DI400Y
        n100  == r400 \div DI100Y
        r100  == r400 % DI100Y
        n4    == r100 \div DI4Y
        r4    == r100 % DI4Y
        n1    == r4 \div 365
        n     == r4 % 365
        year  == n400 * 400 + 1 + n100 * 100 + n4 * 4 + n1
        leapyear == n1 = 3 /\ (n4 # 24 \/ n100 = 3)
        est   == (n + 50) \div 32
        prec  == days_before_month(year, est)
        month == IF prec > n THEN est - 1 ELSE est
        preceding == days_before_month(year, month)
    IN  IF n1 = 4 \/ n100 = 4
        THEN [ok |-> TRUE, year |-> year - 1, month |-> 12, day |-> 31]
        ELSE [ok |-> TRUE, year |-> year, month |-> month, day |-> n - preceding + 1]

\* Monday is 0
weekday(ord) == (ord + 6) % 7

iso_week1_monday(year) ==
    LET firstday     == ymd_to_ord(year, 1, 1)
        firstweekday == weekday(firstday)
        week1monday  == firstday - firstweekday
    IN  IF firstweekday > 3 THEN week1monday + 7 ELSE week1monday

\* iso_to_ymd: an ISO year, week and weekday as a calendar date, or failure
iso_to_ymd(iso_year, iso_week, iso_day) ==
    LET first_weekday == weekday(ymd_to_ord(iso_year, 1, 1))
        long_year     == first_weekday = 3 \/ (first_weekday = 2 /\ is_leap(iso_year))
    IN  IF iso_year < MINYEAR \/ iso_year > MAXYEAR THEN [ok |-> FALSE]
        ELSE IF iso_week <= 0 \/ iso_week > 53 \/ (iso_week = 53 /\ ~long_year)
            THEN [ok |-> FALSE]
        ELSE IF iso_day <= 0 \/ iso_day >= 8 THEN [ok |-> FALSE]
        ELSE ord_to_ymd(iso_week1_monday(iso_year) + (iso_week - 1) * 7 + iso_day - 1)

(***************************************************************************)
(* datetime.fromisoformat (CPython 3.11)                                   *)
(***************************************************************************)
Failed == [ok |-> FALSE]

\* where the date part ends, from characters 4 and 5 and the length (-1: invalid)
find_isoformat_datetime_separator(dtstr) ==
    LET len == Len(dtstr)
        idx == SkipDigits(dtstr, 7)
    IN  IF len = 7 THEN 7
        ELSE IF CharAt(dtstr, 4) = "-"
        THEN IF CharAt(dtstr, 5) = "W"
             THEN IF len < 8 THEN -1
                  ELSE IF len > 8 /\ CharAt(dtstr, 8) = "-"
                  THEN IF len = 9 THEN -1
                       ELSE IF len > 10 /\ CharAt(dtstr, 10) \in Digits THEN 8
                       ELSE 10
                  ELSE 8
             ELSE 10
        ELSE IF CharAt(dtstr, 4) = "W"
             THEN IF idx < 9 THEN idx
                  ELSE IF idx % 2 = 0 THEN 7
                  ELSE 8
             ELSE 8

\* YYYY-?MM-?DD or YYYY-?Www-?D? in dtstr[0:len]
parse_isoformat_date(dtstr, len) ==
    LET uses_separator == CharAt(dtstr, 4) = "-"
        p0   == IF uses_separator THEN 5 ELSE 4
        year == DigitsVal(dtstr, 0, 4)
        \* the week form
        pw   == p0 + 1
        pd   == pw + 2
        pday == IF uses_separator THEN pd + 1 ELSE pd
        week == DigitsVal(dtstr, pw, 2)
        \* the month form
        pm   == p0 + 2
        pdd  == IF uses_separator THEN pm + 1 ELSE pm
    IN  IF ~HasDigits(dtstr, 0, 4) THEN Failed
        ELSE IF CharAt(dtstr, p0) = "W"
        THEN IF ~HasDigits(dtstr, pw, 2) THEN Failed
             ELSE IF pd < len
             THEN IF uses_separator /\ CharAt(dtstr, pd) # "-" THEN Failed
                  ELSE IF ~HasDigits(dtstr, pday, 1) THEN Failed
                  ELSE iso_to_ymd(year, week, DigitsVal(dtstr, pday, 1))
             ELSE iso_to_ymd(year, week, 1)
        ELSE IF ~HasDigits(dtstr, p0, 2) THEN Failed
             ELSE IF uses_separator /\ CharAt(dtstr, pm) # "-" THEN Failed
             ELSE IF ~HasDigits(dtstr, pdd, 2) THEN Failed
             ELSE [ok |-> TRUE, year |-> year, month |-> DigitsVal(dtstr, p0, 2),
                   day |-> DigitsVal(dtstr, pdd, 2)]

\* the fraction after the seconds: up to six digits parsed, further digits
\* skipped; rv is 1 when something follows, 0 at the end of the string, < 0 failed
parse_fraction(s, p, p_end, vals) ==
    LET len_remains == p_end - p
        to_parse    == IF len_remains >= 6 THEN 6 ELSE len_remains
        q           == SkipDigits(s, p + to_parse)
    IN  IF ~HasDigits(s, p, to_parse) THEN [rv |-> -3, vals |-> vals]
        ELSE [rv |-> IF CharAt(s, q) # NUL THEN 1 ELSE 0, vals |-> vals]

\* HH[:?MM[:?SS[{.,}fff[fff]]]] in s[p:p_end], component i of 0..2 next
RECURSIVE parse_hh_mm_ss_ff(_, _, _, _, _, _)
parse_hh_mm_ss_ff(s, p, p_end, i, has_separator, vals) ==
    IF i = 3 THEN parse_fraction(s, p, p_end, vals)
    ELSE IF ~HasDigits(s, p, 2) THEN [rv |-> -3, vals |-> vals]
    ELSE LET nvals == Append(vals, DigitsVal(s, p, 2))
             c     == CharAt(s, p + 2)
             q     == p + 3
             hs    == IF i = 0 THEN c = ":" ELSE has_separator
         IN  IF q >= p_end
             THEN [rv |-> IF c # NUL THEN 1 ELSE 0, vals |-> nvals]
             ELSE IF hs /\ c = ":"
             THEN parse_hh_mm_ss_ff(s, q, p_end, i + 1, hs, nvals)
             ELSE IF c = "." \/ c = ","
             THEN parse_fraction(s, q, p_end, nvals)
             ELSE IF ~hs
             THEN parse_hh_mm_ss_ff(s, q - 1, p_end, i + 1, hs, nvals)
             ELSE [rv |-> -4, vals |-> nvals]

\* the first of Z, + and - at or after p (checked at p even when p = p_end)
RECURSIVE find_tzinfo_pos(_, _, _)
find_tzinfo_pos(s, p, p_end) ==
    IF CharAt(s, p) \in {"Z", "+", "-"} THEN p
    ELSE IF p + 1 < p_end THEN find_tzinfo_pos(s, p + 1, p_end)
    ELSE p + 1

Component(vals, k) == IF k <= Len(vals) THEN vals[k] ELSE 0

\* what the two parses of the time part amount to: t is the time before the
\* time zone at tzpos, tz the offset after it
time_result(s, tzpos, p_end, t, tz) ==
    IF t.rv < 0 THEN Failed
    ELSE IF tzpos >= p_end
    THEN IF t.rv = 1 THEN Failed
         ELSE [ok |-> TRUE, hour |-> Component(t.vals, 1),
               minute |-> Component(t.vals, 2), second |-> Component(t.vals, 3),
               has_tz |-> FALSE, tzoffset |-> 0]
    ELSE IF CharAt(s, tzpos) = "Z"
    THEN IF CharAt(s, tzpos + 1) # NUL THEN Failed
         ELSE [ok |-> TRUE, hour |-> Component(t.vals, 1),
               minute |-> Component(t.vals, 2), second |-> Component(t.vals, 3),
               has_tz |-> TRUE, tzoffset |-> 0]
    ELSE IF tz.rv # 0 THEN Failed
    ELSE [ok |-> TRUE, hour |-> Component(t.vals, 1),
          minute |-> Component(t.vals, 2), second |-> Component(t.vals, 3),
          has_tz |-> TRUE,
          tzoffset |-> (IF CharAt(s, tzpos) = "-" THEN -1 ELSE 1)
                       * (Component(tz.vals, 1) * 3600
                          + Component(tz.vals, 2) * 60 + Component(tz.vals, 3))]

time_at(s, p, tzpos, p_end) ==
    time_result(s, tzpos, p_end,
                parse_hh_mm_ss_ff(s, p, tzpos, 0, TRUE, <<>>),
                parse_hh_mm_ss_ff(s, tzpos + 1, p_end, 0, TRUE, <<>>))

\* the time part s[p:]: [ok, hour, minute, second, has_tz, tzoffset (seconds)]
parse_isoformat_time(s, p) == time_at(s, p, find_tzinfo_pos(s, p, Len(s)), Len(s))

\* the range checks of the datetime and timezone constructors
check_date_args(year, month, day) ==
    /\ year >= MINYEAR /\ year <= MAXYEAR
    /\ month >= 1 /\ month <= 12
    /\ day >= 1 /\ day <= days_in_month(year, month)

check_time_args(hour, minute, second) ==
    /\ hour >= 0 /\ hour <= 23
    /\ minute >= 0 /\ minute <= 59
    /\ second >= 0 /\ second <= 59

check_tz_args(has_tz, tzoffset) ==
    ~has_tz \/ (tzoffset > -86400 /\ tzoffset < 86400)

\* the timezone and datetime constructors on the parsed parts
new_datetime(d, t) ==
    IF ~d.ok THEN Failed
    ELSE IF ~t.ok THEN Failed
    ELSE IF ~check_tz_args(t.has_tz, t.tzoffset) THEN Failed
    ELSE IF ~check_date_args(d.year, d.month, d.day) THEN Failed
    ELSE IF ~check_time_args(t.hour, t.minute, t.second) THEN Failed
    ELSE [ok |-> TRUE, year |-> d.year, month |-> d.month, day |-> d.day,
          hour |-> t.hour, minute |-> t.minute, second |-> t.second]

Midnight ==
    [ok |-> TRUE, hour |-> 0, minute |-> 0, second |-> 0, has_tz |-> FALSE, tzoffset |-> 0]

fromisoformat_at(dtstr, separator_location) ==
    IF Len(dtstr) < 7 \/ separator_location < 0 THEN Failed
    ELSE new_datetime(parse_isoformat_date(dtstr, separator_location),
                      IF Len(dtstr) > separator_location
                      THEN parse_isoformat_time(dtstr, separator_location + 1)
                      ELSE Midnight)

\* datetime.fromisoformat(v): the datetime, or ok = FALSE for ValueError
fromisoformat(dtstr) ==
    fromisoformat_at(dtstr, find_isoformat_datetime_separator(dtstr))

(***************************************************************************)
(* datetime.strftime(date, "%Y-%m-%d")                                     *)
(***************************************************************************)
\* glibc prints %Y without padding; other C libraries pad it to four digits
Platforms == {"glibc", "padded"}

RECURSIVE Decimal(_)
Decimal(n) ==
    IF n < 10 THEN <<DigitChars[n + 1]>>
    ELSE Append(Decimal(n \div 10), DigitChars[(n % 10) + 1])

RECURSIVE ZeroPad(_, _)
ZeroPad(s, width) == IF Len(s) >= width THEN s ELSE ZeroPad(<<"0">> \o s, width)

FormatYear(year, plat) ==
    IF plat = "glibc" THEN Decimal(year) ELSE ZeroPad(Decimal(year), 4)

strftime(date, plat) ==
    FormatYear(date.year, plat) \o <<"-">> \o ZeroPad(Decimal(date.month), 2)
        \o <<"-">> \o ZeroPad(Decimal(date.day), 2)

(***************************************************************************)
(* SummarySchema.validate_date                                             *)
(***************************************************************************)
\* the try block's outcome for what fromisoformat gave
formatted_or_raised(date, plat) ==
    IF date.ok
    THEN [kind |-> "return", value |-> strftime(date, plat)]
    ELSE [kind |-> "raise", value |-> <<>>]

\* a validator whose except branch hands the string back instead of raising
validate_date_lenient(value, plat) ==
    IF fromisoformat(value).ok
    THEN formatted_or_raised(fromisoformat(value), plat)
    ELSE [kind |-> "return", value |-> value]

validate_date(value, plat) == formatted_or_raised(fromisoformat(value), plat)

(***************************************************************************)
(* The datePublished strings the validator is tried on                     *)
(***************************************************************************)
Years ==
    {<<"0", "0", "0", "0">>, <<"0", "0", "0", "1">>, <<"0", "9", "9", "9">>, <<"1", "0", "0", "0">>,
     <<"2", "0", "2", "0">>, <<"2", "0", "2", "4">>, <<"9", "9", "9", "9">>}

Months ==
    {<<"0", "0">>, <<"0", "1">>, <<"0", "2">>, <<"1", "2">>, <<"1", "3">>}

Days ==
    {<<"0", "0">>, <<"0", "1">>, <<"2", "9">>, <<"3", "0">>, <<"3", "1">>, <<"3", "2">>}

Weeks ==
    {<<"0", "0">>, <<"0", "1">>, <<"5", "2">>, <<"5", "3">>, <<"5", "4">>}

WeekDays ==
    {<<"0">>, <<"1">>, <<"7">>, <<"8">>}

TimeParts ==
    {<<>>, <<"T">>,
     <<"T", "1", "0">>, <<"T", "1", "0", ":", "3", "0">>,
     <<"T", "1", "0", "3", "0">>, <<" ", "2", "3", ":", "5", "9", ":", "5", "9">>,
     <<"T", "2", "4", ":", "0", "0">>, <<"T", "1", "0", ":", "6", "0">>,
     <<"T", "1", "0", ":", "3", "0", ":", "1", "5", ".", "5">>, <<"T", "1", "0", ":", "3", "0", "Z">>,
     <<"T", "1", "0", ":", "3", "0", "+", "0", "5", ":", "3", "0">>, <<"T", "1", "0", ":", "3", "0", "-", "0", "8", "0", "0">>,
     <<"T", "1", "0", ":", "3", "0", "+", "2", "4", ":", "0", "0">>, <<"T", "1">>,
     <<"T", "1", "0", ":", "3">>, <<"T", "1", "0", ":", "3", "0", ":", "1", "5", ":", "0", "0">>,
     <<"x", "1", "0">>, <<"T", "1", "0", ":", "3", "0", " ", "Z">>,
     <<"T", "1", "0", ":">>, <<"T", "1", "0", ":", "Z">>,
     <<"T", "1", "0", ":", "3", "0", ":", "6", "0">>, <<"T", "1", "0", ".", "5">>,
     <<"T", "1", "0", ":", "3", "0", ":", "1", "5", ",", "1", "2", "3", "4", "5", "6", "7", "8", "9">>, <<"T", "1", "0", ":", "3", "0", ":", "1", "5", ".">>,
     <<"T", "1", "0", ":", "3", "0", "+">>, <<"T", "1", "0", ":", "3", "0", "+", "0", "5", ":">>,
     <<"T", "1", "0", "3", "0", ":", "1", "5">>, <<"T", "1", "0", ":", "3", "0", "1", "5">>,
     <<"T", "Z">>, <<"T", "-", "1", "0">>,
     <<"T", "1", "0", ":", "3", "0", "Z", "Z">>, <<"T", "1", "0", ":", "3", "0", "+", "0">>,
     <<"T", "1", "0", ":", "3", "0", "+", "0", "5", "3">>, <<"T", "1", "0", ":", "3", "0", "+", "0", "5", ":", "3", "0", ":", "1", "5", ".", "5">>}

OtherStrings ==
    {<<>>, <<"2", "0", "2", "4">>,
     <<"2", "0", "2", "4", "-", "0", "1">>, <<"2", "0", "2", "4", "-", "1", "-", "2">>,
     <<"2", "0", "2", "4", "/", "0", "1", "/", "0", "2">>, <<"2", "0", "2", "4", "-", "0", "1", "0", "2">>,
     <<"2", "0", "2", "4", "0", "1", "-", "0", "2">>, <<"2", "0", "2", "4", "-", "1", "2", "3">>,
     <<"2", "0", "2", "4", "1", "2", "3">>, <<" ", "2", "0", "2", "4", "-", "0", "1", "-", "0", "2">>,
     <<"2", "0", "2", "4", "-", "0", "1", "-", "0", "2", " ">>, <<"0", "2", "-", "0", "1", "-", "2", "0", "2", "4">>,
     <<"J", "a", "n", " ", "2", " ", "2", "0", "2", "4">>, <<"y", "e", "s", "t", "e", "r", "d", "a", "y">>,
     <<"2", "4", "-", "0", "1", "-", "0", "2">>, <<"2", "0", "2", "4", "-", "0", "1", "-", "2">>,
     <<"2", "0", "2", "4", "-", "W", "1", "-", "1">>, <<"2", "0", "2", "4", "-", "W", "0", "1", "1">>,
     <<"2", "0", "2", "4", "W", "0", "1", "-", "1">>, <<"2", "0", "2", "4", "-", "W", "0", "1", "-">>,
     <<"2", "0", "2", "4", "-", "W", "0", "1", "-", "1", "T">>, <<"2", "0", "2", "4", "-", "W", "0", "1", "-", "1", "0">>,
     <<"2", "0", "2", "4", "-", "W", "0", "1", "-", "1", "0", "0">>, <<"2", "0", "2", "4", "W", "0", "1", "1", "0">>,
     <<"2", "0", "2", "4", "W", "0", "1", "1", "0", "1">>, <<"2", "0", "2", "4", "W", "0", "1", "1", "0", "1", "0">>,
     <<"+", "2", "0", "2", "4", "-", "0", "1", "-", "0", "2">>, <<"2", "0", "2", "4", "-", "0", "1", "-", "0", "2", "T", "1", "0", ":", "3", "0", ":", "1", "5", ".", "5", "Z">>,
     <<"2", "0", "2", "4", "0", "1", "0", "2", "T", "1", "0">>, <<"2", "0", "2", "4", "W", "0", "1">>,
     <<"2", "0", "2", "4", "0", "1", "0">>, <<"2", "0", "2", "4", "-", "W", "0", "1", "-", "1", "x", "1", "0", ":", "3", "0">>,
     <<"2", "0", "2", "4", "W", "0", "1", "1", "0", "1", "0", "Z">>, <<"2", "O", "2", "4", "-", "0", "1", "-", "0", "2">>,
     <<"2", "0", "2", "4", "-", "O", "1", "-", "0", "2">>, <<"2", "0", "2", "4", "-", "0", "1", "-", "O", "2">>,
     <<"2", "0", "2", "4", "0", "2", "3", "0">>, <<"2", "0", "2", "3", "-", "0", "2", "-", "2", "9">>,
     <<"2", "0", "2", "4", "-", "0", "2", "-", "2", "9">>, <<"1", "9", "0", "0", "-", "0", "2", "-", "2", "9">>,
     <<"2", "0", "0", "0", "-", "0", "2", "-", "2", "9">>, <<"2", "0", "2", "4", "-", "0", "4", "-", "3", "1">>,
     <<"2", "0", "2", "4", "-", "W", "5", "3">>, <<"2", "0", "2", "0", "-", "W", "5", "3">>,
     <<"2", "0", "2", "0", "W", "5", "3", "7">>}

DateSeparators == {<<>>, <<"-">>}

CalendarStrings ==
    {y \o sep \o m \o sep \o d \o t :
        y \in Years, sep \in DateSeparators, m \in Months, d \in Days, t \in TimeParts}

WeekStringsWith(sep) ==
    {y \o sep \o <<"W">> \o w \o wd \o t :
        y \in Years, w \in Weeks,
        wd \in {<<>>} \cup {sep \o d : d \in WeekDays}, t \in TimeParts}

WeekStrings == UNION {WeekStringsWith(sep) : sep \in DateSeparators}

DateInputs == CalendarStrings \cup WeekStrings \cup OtherStrings

(***************************************************************************)
(* SummarySchema                                                           *)
(***************************************************************************)
Categories ==
    {"AI", "Hardware", "Software Development", "Web Development",
     "Cloud Computing", "Data Science", "Machine Learning", "Cybersecurity",
     "Networking", "DevOps", "Mobile Development", "Game Development",
     "Database Management", "IT", "Project Management"}

RequiredFields ==
    {"title", "url", "summary", "content", "category", "datePublished", "source"}

\* the instance once datePublished went through its validator
validated_fields(raw, checked) ==
    IF checked.kind = "raise" THEN [ok |-> FALSE]
    ELSE [ok |-> TRUE,
          record |-> [title |-> raw.title, url |-> raw.url,
                      summary |-> raw.summary, content |-> raw.content,
                      category |-> raw.category,
                      datePublished |-> checked.value,
                      imageUrl |-> IF "imageUrl" \in DOMAIN raw
                                   THEN <<raw.imageUrl>> ELSE <<>>,
                      source |-> raw.source]]

\* SummarySchema(**raw): the instance, or ok = FALSE for a validation error.
\* An Optional[str] is <<>> for None and <<s>> for the string s.
SummarySchema(raw, plat) ==
    IF ~(RequiredFields \subseteq DOMAIN raw) THEN [ok |-> FALSE]
    ELSE IF raw.category \notin Categories THEN [ok |-> FALSE]
    ELSE validated_fields(raw, validate_date(raw.datePublished, plat))

\* response.model_dump_json(indent=2): the JSON object of the instance's fields
model_dump_json(record) == [json |-> record]

(***************************************************************************)
(* Messages, the page and the language model's answers                     *)
(***************************************************************************)
HumanMessage(content) == [type |-> "human", content |-> content]

AIMessage(content) == [type |-> "ai", content |-> content]

SystemMessage(content) == [type |-> "system", content |-> content]

Instruction ==
    "You are a web page content summarizer. Use the given output structure to summarize the page content."

\* f"Page content for '{url}':\n{html}": the two interpolated parts
page2string(u, body) == [page_for |-> u, page_html |-> body]

Pages == {"<html>article</html>", "<html>blocked</html>"}

BatchUrl == "http://localhost:8000/page.html"

Urls == {BatchUrl, "https://example.org/article"}

\* the answers a language model may fill the form with
AnswerCategories == {"AI", "Sports"}

AnswerDates ==
    {<<"2", "0", "2", "4", "-", "0", "1", "-", "0", "2", "T", "1", "0", ":", "3", "0", "Z">>,
     <<"0", "9", "9", "9", "-", "0", "1", "-", "0", "2">>,
     <<"y", "e", "s", "t", "e", "r", "d", "a", "y">>}

FullAnswer(cat, date) ==
    [title |-> "a title", url |-> "a url", summary |-> "a summary",
     content |-> "the content", category |-> cat, datePublished |-> date,
     imageUrl |-> "an image url", source |-> "a source"]

Without(raw, field) == [f \in (DOMAIN raw) \ {field} |-> raw[f]]

Answers ==
    UNION {{FullAnswer(cat, date),
            Without(FullAnswer(cat, date), "imageUrl"),
            Without(FullAnswer(cat, date), "title")} :
           cat \in AnswerCategories, date \in AnswerDates}

(***************************************************************************)
(* get_article_extractor: the compiled graph                               *)
(***************************************************************************)
START == "__start__"

GraphNodes == {"summarize"}

\* a graph whose node leads back to itself
GraphEdgesLooping == {<<START, "summarize">>, <<"summarize", "summarize">>}

GraphEdges == {<<START, "summarize">>}

Successors(node) == {e[2] : e \in {d \in GraphEdges : d[1] = node}}

\* a state without a reducer: the update replaces the channel
replace_messages(left, right) == right

\* the reducer of MessagesState: new messages (fresh ids) go to the end
add_messages(left, right) == left \o right

Last(seq) == seq[Len(seq)]

Range(seq) == {seq[i] : i \in DOMAIN seq}

Event(step) == [step |-> step, inv |-> Len(invocations)]

Raise(exc) ==
    /\ error' = exc
    /\ gpc' = "failed"
    /\ pc' = "failed"
    /\ trace' = Append(trace, Event("raise"))

\* agent.astream / agent.ainvoke on {"messages": input}
GraphBegin(agent, input, mode) ==
    /\ messages' = add_messages(<<>>, input)
    /\ next_nodes' = Successors(START)
    /\ invocations' = Append(invocations,
                             [agent |-> agent, input |-> input, mode |-> mode,
                              node_runs |-> 0, model_calls |-> 0])
    /\ gpc' = IF mode = "stream" THEN "emit"
              ELSE IF Successors(START) = {} THEN "end" ELSE "run"

\* summarize, up to its await: the latest message goes to the model
summarize_call ==
    /\ gpc = "run"
    /\ "summarize" \in next_nodes
    /\ stdout' = Append(stdout, [kind |-> "checkpoint"])
    /\ IF messages = <<>>
       THEN /\ Raise("IndexError")
            /\ UNCHANGED <<model_args, invocations>>
       ELSE /\ model_args' = <<SystemMessage(Instruction),
                               SystemMessage(Last(messages).content)>>
            /\ invocations' = [invocations EXCEPT
                                  ![Len(invocations)].node_runs = @ + 1,
                                  ![Len(invocations)].model_calls = @ + 1]
            /\ gpc' = "model"
            /\ trace' = Append(trace, Event("invoke"))
            /\ UNCHANGED <<pc, error>>
    /\ UNCHANGED <<platform, dateVars, runner, AGENTS, url, html, prompt, agent_idx,
                   returned, fetches, messages, next_nodes, answer, response,
                   message_index, streamVars>>

\* a model call that is made once more after its first failure
model_ainvoke_retrying ==
    /\ gpc = "model"
    /\ \/ /\ \E a \in Answers : answer' = a
          /\ gpc' = "parse"
          /\ UNCHANGED <<pc, error, trace, invocations>>
       \/ /\ Last(invocations).model_calls < 2
          /\ invocations' = [invocations EXCEPT ![Len(invocations)].model_calls = @ + 1]
          /\ UNCHANGED <<pc, gpc, error, trace, answer>>
       \/ /\ Last(invocations).model_calls >= 2
          /\ Raise("ResponseError")
          /\ UNCHANGED <<answer, invocations>>
    /\ UNCHANGED <<platform, dateVars, runner, AGENTS, url, html, prompt, agent_idx,
                   returned, fetches, messages, next_nodes, model_args, response,
                   printVars, streamVars>>

\* the model client answers, or fails
model_ainvoke ==
    /\ gpc = "model"
    /\ \/ /\ \E a \in Answers : answer' = a
          /\ gpc' = "parse"
          /\ UNCHANGED <<pc, error, trace>>
       \/ /\ Raise("ResponseError")
          /\ UNCHANGED answer
    /\ UNCHANGED <<platform, dateVars, runner, AGENTS, url, html, prompt, agent_idx,
                   returned, fetches, messages, next_nodes, model_args, response,
                   invocations, printVars, streamVars>>

\* the structured-output parser hands the instance on, or raises
parsed(r) ==
    IF r.ok
    THEN /\ response' = r.record
         /\ gpc' = "respond"
         /\ trace' = Append(trace, Event("validate"))
         /\ UNCHANGED <<pc, error>>
    ELSE /\ Raise("ValidationError")
         /\ UNCHANGED response

\* a model without the schema bound: the raw answer is passed on unvalidated
unstructured_output ==
    /\ gpc = "parse"
    /\ response' = answer
    /\ gpc' = "respond"
    /\ UNCHANGED <<platform, dateVars, runVars, messages, next_nodes, model_args,
                   answer, invocations, error, trace, printVars, streamVars>>

\* with_structured_output(SummarySchema): the answer becomes an instance, or fails
structured_output ==
    /\ gpc = "parse"
    /\ parsed(SummarySchema(answer, platform))
    /\ UNCHANGED <<platform, dateVars, runner, AGENTS, url, html, prompt, agent_idx,
                   returned, fetches, messages, next_nodes, model_args, answer,
                   invocations, printVars, streamVars>>

\* summarize returns {"messages": AIMessage(...)}; the graph applies the update
summarize_return ==
    /\ gpc = "respond"
    /\ messages' = add_messages(messages, <<AIMessage(model_dump_json(response))>>)
    /\ next_nodes' = Successors("summarize")
    /\ gpc' = IF Last(invocations).mode = "stream" THEN "emit"
              ELSE IF Successors("summarize") = {} THEN "end" ELSE "run"
    /\ UNCHANGED <<platform, dateVars, runVars, model_args, answer, response,
                   invocations, error, trace, printVars, streamVars>>

(***************************************************************************)
(* The runners                                                             *)
(***************************************************************************)
\* the entries of the AGENTS dictionary literal, commented-out ones included
AgentNames == <<"qwen3:8b", "qwen3:8b-0DEG", "granite3.2", "qwq">>

UnitAgent == "granite3.2"

\* the entries kept, in the order of the literal
RECURSIVE Kept(_, _)
Kept(names, keep) ==
    IF names = <<>> THEN <<>>
    ELSE IF Head(names) \in keep THEN <<Head(names)>> \o Kept(Tail(names), keep)
    ELSE Kept(Tail(names), keep)

AgentConfigs == {Kept(AgentNames, keep) : keep \in SUBSET Range(AgentNames)}

\* html = page2string(url): requests.get answers with a page, or raises
page2string_call ==
    /\ pc = "start"
    /\ fetches' = fetches + 1
    /\ \/ /\ \E body \in Pages : html' = page2string(url, body)
          /\ pc' = "fetched"
          /\ trace' = Append(trace, Event("fetch"))
          /\ UNCHANGED <<error, gpc>>
       \/ /\ Raise("ConnectionError")
          /\ UNCHANGED html
    /\ UNCHANGED <<platform, dateVars, runner, AGENTS, url, prompt, agent_idx,
                   returned, messages, next_nodes, model_args, answer, response,
                   invocations, printVars, streamVars>>

\* prompt = HumanMessage(content=html)
wrap_prompt ==
    /\ pc = "fetched"
    /\ prompt' = HumanMessage(html)
    /\ pc' = IF runner = "batch" THEN "loop" ELSE "call"
    /\ trace' = Append(trace, Event("wrap"))
    /\ UNCHANGED <<platform, dateVars, runner, AGENTS, url, html, agent_idx,
                   returned, fetches, gpc, messages, next_nodes, model_args,
                   answer, response, invocations, error, printVars, streamVars>>

\* a loop that loads the page again for each agent
batch_next_agent_refetching ==
    /\ pc = "loop"
    /\ agent_idx < Len(AGENTS)
    /\ agent_idx' = agent_idx + 1
    /\ fetches' = fetches + 1
    /\ \E body \in Pages :
          /\ html' = page2string(url, body)
          /\ prompt' = HumanMessage(page2string(url, body))
          /\ GraphBegin(AGENTS[agent_idx + 1],
                        <<HumanMessage(page2string(url, body))>>, "stream")
    /\ stdout' = Append(stdout, [kind |-> "banner", model |-> AGENTS[agent_idx + 1]])
    /\ message_index' = 1
    /\ pc' = "stream"
    /\ UNCHANGED <<platform, dateVars, runner, AGENTS, url, returned,
                   model_args, answer, response, error, trace, streamVars>>

\* for model, agent in AGENTS.items(): the banner, then stream_and_pretty_print
\* up to its first await
batch_next_agent ==
    /\ pc = "loop"
    /\ agent_idx < Len(AGENTS)
    /\ agent_idx' = agent_idx + 1
    /\ stdout' = Append(stdout, [kind |-> "banner", model |-> AGENTS[agent_idx + 1]])
    /\ message_index' = 1
    /\ GraphBegin(AGENTS[agent_idx + 1], <<prompt>>, "stream")
    /\ pc' = "stream"
    /\ UNCHANGED <<platform, dateVars, runner, AGENTS, url, html, prompt, returned,
                   fetches, model_args, answer, response, error, trace, streamVars>>

\* the for loop is exhausted
batch_done ==
    /\ pc = "loop"
    /\ agent_idx = Len(AGENTS)
    /\ pc' = "done"
    /\ UNCHANGED <<platform, dateVars, runner, AGENTS, url, html, prompt, agent_idx,
                   returned, fetches, graphVars, printVars, streamVars>>

\* chunk["messages"][message_index - 1:]
NewMessagesOneEarly(chunk, index) == SubSeq(chunk, index, Len(chunk))

\* chunk["messages"][message_index:]
NewMessages(chunk, index) == SubSeq(chunk, index + 1, Len(chunk))

Printed(new_messages) ==
    [i \in 1..Len(new_messages) |-> [kind |-> "message", message |-> new_messages[i]]]

PrintEvents(new_messages) == [i \in 1..Len(new_messages) |-> Event("print")]

\* the body of the async for: the chunk's new messages are pretty-printed
pretty_print_new(new_messages) ==
    /\ message_index' = message_index + Len(new_messages)
    /\ stdout' = stdout \o Printed(new_messages)
    /\ trace' = trace \o PrintEvents(new_messages)

\* one turn of the async for on the chunk the graph emitted
stream_chunk ==
    /\ pc = "stream"
    /\ gpc = "emit"
    /\ pretty_print_new(NewMessages(messages, message_index))
    /\ gpc' = IF next_nodes = {} THEN "end" ELSE "run"
    /\ UNCHANGED <<platform, dateVars, runVars, messages, next_nodes, model_args,
                   answer, response, invocations, error, streamVars>>

\* the stream is exhausted: stream_and_pretty_print returns to the loop
stream_end ==
    /\ pc = "stream"
    /\ gpc = "end"
    /\ pc' = "loop"
    /\ gpc' = "idle"
    /\ UNCHANGED <<platform, dateVars, runner, AGENTS, url, html, prompt, agent_idx,
                   returned, fetches, messages, next_nodes, model_args, answer,
                   response, invocations, error, trace, printVars, streamVars>>

\* response = await AGENTS["granite3.2"].ainvoke({"messages": [prompt]})
unit_invoke ==
    /\ pc = "call"
    /\ IF UnitAgent \in Range(AGENTS)
       THEN /\ GraphBegin(UnitAgent, <<prompt>>, "invoke")
            /\ pc' = "await"
            /\ UNCHANGED <<error, trace>>
       ELSE /\ Raise("KeyError")
            /\ UNCHANGED <<messages, next_nodes, invocations>>
    /\ UNCHANGED <<platform, dateVars, runner, AGENTS, url, html, prompt, agent_idx,
                   returned, fetches, model_args, answer, response, printVars,
                   streamVars>>

\* response["messages"][0].content
UnitResultFirst(final_messages) == Head(final_messages).content

\* response["messages"][-1].content
UnitResult(final_messages) == Last(final_messages).content

\* return response["messages"][-1].content
unit_return ==
    /\ pc = "await"
    /\ gpc = "end"
    /\ returned' = <<UnitResult(messages)>>
    /\ pc' = "returned"
    /\ trace' = Append(trace, Event("return"))
    /\ UNCHANGED <<platform, dateVars, runner, AGENTS, url, html, prompt, agent_idx,
                   fetches, gpc, messages, next_nodes, model_args, answer, response,
                   invocations, error, printVars, streamVars>>

(***************************************************************************)
(* Initial states and specifications                                       *)
(***************************************************************************)
NoDate == v = <<>> /\ dpc = "idle" /\ dres = [kind |-> "none", value |-> <<>>]

NoStream == stream = <<>> /\ chunk_no = 0

NoGraph ==
    /\ gpc = "idle"
    /\ messages = <<>>
    /\ next_nodes = {}
    /\ model_args = <<>>
    /\ answer = <<>>
    /\ response = <<>>
    /\ invocations = <<>>
    /\ error = "none"
    /\ trace = <<>>

NoRun ==
    /\ AGENTS = <<>>
    /\ url = ""
    /\ html = <<>>
    /\ prompt = <<>>
    /\ agent_idx = 0
    /\ returned = <<>>
    /\ fetches = 0

\* a run of the batch cell, or a call of summarize_article(url)
Init ==
    /\ platform \in Platforms
    /\ NoDate
    /\ NoStream
    /\ NoGraph
    /\ runner \in {"batch", "unit"}
    /\ AGENTS \in AgentConfigs
    /\ url \in IF runner = "batch" THEN {BatchUrl} ELSE Urls
    /\ pc = "start"
    /\ html = <<>>
    /\ prompt = <<>>
    /\ agent_idx = 0
    /\ returned = <<>>
    /\ fetches = 0
    /\ message_index = 0
    /\ stdout = <<>>

Next ==
    \/ page2string_call
    \/ wrap_prompt
    \/ batch_next_agent
    \/ stream_chunk
    \/ stream_end
    \/ batch_done
    \/ unit_invoke
    \/ unit_return
    \/ summarize_call
    \/ model_ainvoke
    \/ structured_output
    \/ summarize_return

Spec == Init /\ [][Next]_vars

\* SummarySchema built with datePublished = v: the field validator runs
construct_summary ==
    /\ dpc = "call"
    /\ dres' = validate_date(v, platform)
    /\ dpc' = IF dres'.kind = "return" THEN "constructed" ELSE "raised"
    /\ UNCHANGED <<platform, v, runVars, graphVars, printVars, streamVars>>

InitDate ==
    /\ platform \in Platforms
    /\ v \in DateInputs
    /\ dpc = "call"
    /\ dres = [kind |-> "none", value |-> <<>>]
    /\ runner = "none"
    /\ pc = "idle"
    /\ NoRun
    /\ NoGraph
    /\ NoStream
    /\ message_index = 0
    /\ stdout = <<>>

NextDate == construct_summary

SpecDate == InitDate /\ [][NextDate]_vars

\* the serialized record is validated again: SummarySchema built with
\* datePublished = the string the first validation returned
revalidate_summary ==
    /\ dpc = "constructed"
    /\ v' = dres.value
    /\ dres' = validate_date(dres.value, platform)
    /\ dpc' = IF dres'.kind = "return" THEN "revalidated" ELSE "reraised"
    /\ UNCHANGED <<platform, runVars, graphVars, printVars, streamVars>>

NextRevalidate ==
    \/ construct_summary
    \/ revalidate_summary

SpecRevalidate == InitDate /\ [][NextRevalidate]_vars

(***************************************************************************)
(* stream_and_pretty_print on any stream of growing snapshots              *)
(***************************************************************************)
MaxChunks == 3

MaxMessages == 4

\* message i of a conversation: the prompt first, then distinct later messages
StreamMessage(i) ==
    IF i = 1 THEN HumanMessage(page2string(BatchUrl, "<html>article</html>"))
    ELSE AIMessage([text |-> i])

Snapshot(len) == [i \in 1..len |-> StreamMessage(i)]

\* the streams of at most MaxChunks snapshots that only grow by appending
Streams ==
    UNION {{[k \in 1..n |-> Snapshot(lens[k])] :
              lens \in {l \in [1..n -> 0..MaxMessages] :
                          \A k \in 1..n : k < n => l[k] <= l[k + 1]}} :
           n \in 0..MaxChunks}

\* message_index = 1
stream_start ==
    /\ pc = "call"
    /\ message_index' = 1
    /\ pc' = "stream"
    /\ UNCHANGED <<platform, dateVars, runner, AGENTS, url, html, prompt, agent_idx,
                   returned, fetches, graphVars, stdout, streamVars>>

\* one turn of the async for on the next snapshot of the stream
stream_turn ==
    /\ pc = "stream"
    /\ chunk_no < Len(stream)
    /\ chunk_no' = chunk_no + 1
    /\ pretty_print_new(NewMessages(stream[chunk_no + 1], message_index))
    /\ UNCHANGED <<platform, dateVars, runVars, gpc, messages, next_nodes,
                   model_args, answer, response, invocations, error, stream>>

stream_exhausted ==
    /\ pc = "stream"
    /\ chunk_no = Len(stream)
    /\ pc' = "done"
    /\ UNCHANGED <<platform, dateVars, runner, AGENTS, url, html, prompt, agent_idx,
                   returned, fetches, graphVars, printVars, streamVars>>

InitStream ==
    /\ platform \in Platforms
    /\ NoDate
    /\ NoGraph
    /\ NoRun
    /\ runner = "stream"
    /\ pc = "call"
    /\ stream \in Streams
    /\ chunk_no = 0
    /\ message_index = 0
    /\ stdout = <<>>

NextStream == stream_start \/ stream_turn \/ stream_exhausted

SpecStream == InitStream /\ [][NextStream]_vars

(***************************************************************************)
(* The compiled graph invoked on any message list                          *)
(***************************************************************************)
MaxHistory == 3

HistoryMessages ==
    {HumanMessage(page2string(BatchUrl, "<html>article</html>")),
     HumanMessage(page2string(BatchUrl, "<html>blocked</html>")),
     AIMessage([text |-> 1])}

MessageLists == UNION {[1..n -> HistoryMessages] : n \in 0..MaxHistory}

\* agent.ainvoke({"messages": input})
direct_invoke ==
    /\ pc = "call"
    /\ \E input \in MessageLists : GraphBegin("direct", input, "invoke")
    /\ pc' = "await"
    /\ UNCHANGED <<platform, dateVars, runner, AGENTS, url, html, prompt, agent_idx,
                   returned, fetches, model_args, answer, response, error, trace,
                   printVars, streamVars>>

InitNode ==
    /\ platform \in Platforms
    /\ NoDate
    /\ NoStream
    /\ NoGraph
    /\ NoRun
    /\ runner = "direct"
    /\ pc = "call"
    /\ message_index = 0
    /\ stdout = <<>>

NextNode ==
    \/ direct_invoke
    \/ summarize_call
    \/ model_ainvoke
    \/ structured_output
    \/ summarize_return

SpecNode == InitNode /\ [][NextNode]_vars

(***************************************************************************)
(* Properties of SummarySchema.validate_date (SpecDate)                    *)
(***************************************************************************)
\* YYYY-MM-DD: four digits, two digits and two digits, separated by "-"
IsCanonicalDate(s) ==
    /\ Len(s) = 10
    /\ s[5] = "-"
    /\ s[8] = "-"
    /\ \A i \in {1, 2, 3, 4, 6, 7, 9, 10} : s[i] \in Digits

\* the text s is the canonical form of the calendar date of the datetime d
DenotesDateOf(s, d) ==
    /\ IsCanonicalDate(s)
    /\ DigitsVal(s, 0, 4) = d.year
    /\ DigitsVal(s, 5, 2) = d.month
    /\ DigitsVal(s, 8, 2) = d.day

\* value is written YYYY-MM-DD[...]: its calendar date is its first ten characters
IsExtendedCalendarForm(value) ==
    /\ Len(value) >= 10
    /\ CharAt(value, 4) = "-"
    /\ CharAt(value, 5) # "W"

Validated == dpc \in {"constructed", "raised"}

\* C1: for every date string v that datetime.fromisoformat parses, validate_date
\* returns the calendar date of v written YYYY-MM-DD (4-digit year, 2-digit
\* month, 2-digit day, "-" between them), with any time part dropped.
C1_ParseableIsNormalized ==
    (Validated /\ fromisoformat(v).ok) =>
        /\ dres.kind = "return"
        /\ DenotesDateOf(dres.value, fromisoformat(v))
        /\ (IsExtendedCalendarForm(v) => dres.value = SubSeq(v, 1, 10))

\* C2: for every string v that datetime.fromisoformat does not parse,
\* validate_date raises and returns no value, and no SummarySchema record
\* with that datePublished is constructed.
C2_UnparseableRaises ==
    (Validated /\ ~fromisoformat(v).ok) =>
        /\ dres.kind = "raise"
        /\ dres.value = <<>>
        /\ dpc = "raised"

\* a well-formed date that is not a day of the calendar was rejected
C2_Witness ==
    /\ dpc = "raised"
    /\ v = <<"2", "0", "2", "4", "-", "0", "2", "-", "3", "0">>

Revalidated == dpc \in {"revalidated", "reraised"}

\* C11: validate_date is idempotent on accepted inputs: the string r it
\* returned for an accepted v is itself accepted, and validate_date(r) = r
\* (here v holds r and dres the outcome of validating r).
C11_ValidateDateIdempotent ==
    Revalidated =>
        /\ dres.kind = "return"
        /\ dres.value = v
        /\ dpc = "revalidated"

\* the same statement where strftime pads the year to four digits
C11_IdempotentWherePadded ==
    (Revalidated /\ platform = "padded") => dres = [kind |-> "return", value |-> v]

\* the same statement for results that are in the form YYYY-MM-DD
C11_IdempotentOnCanonical ==
    (Revalidated /\ IsCanonicalDate(v)) => dres = [kind |-> "return", value |-> v]

\* a date with a time part was validated, and its result validated again
C11_Witness ==
    /\ dpc = "revalidated"
    /\ v = <<"2", "0", "2", "4", "-", "0", "1", "-", "0", "2">>

(***************************************************************************)
(* Properties of the runners and the graph (Spec)                          *)
(***************************************************************************)
Steps(step) == {i \in DOMAIN trace : trace[i].step = step}

\* step b of invocation inv happens only after step a of that invocation
After(a, b) ==
    \A i \in Steps(b) : \E j \in Steps(a) : j < i /\ trace[j].inv = trace[i].inv

RunCompleted == pc \in {"done", "returned"}

\* C3: in every run of either runner the page is fetched, the text is wrapped in
\* a message, the model is invoked on that message, its answer is validated, and
\* only then is a result printed or returned; a completed run skipped none of
\* these for any of its invocations.
C3_StepsInOrder ==
    /\ \A i \in Steps("wrap") : \E j \in Steps("fetch") : j < i
    /\ \A i \in Steps("invoke") : \E j \in Steps("wrap") : j < i
    /\ After("invoke", "validate")
    /\ After("validate", "print")
    /\ After("validate", "return")
    /\ \A k \in DOMAIN invocations :
          (gpc \in {"model", "parse", "respond"} /\ k = Len(invocations)) =>
              model_args = <<SystemMessage(Instruction), SystemMessage(prompt.content)>>
    /\ RunCompleted =>
          \A k \in DOMAIN invocations :
             \E i \in Steps("invoke"), j \in Steps("validate"),
                l \in Steps("print") \cup Steps("return") :
                 /\ trace[i].inv = k /\ trace[j].inv = k /\ trace[l].inv = k
                 /\ i < j /\ j < l

C3_Witness ==
    /\ runner = "batch"
    /\ pc = "done"
    /\ Cardinality(Steps("print")) >= 2

AllFields == RequiredFields \cup {"imageUrl"}

\* content is the JSON of a record that matches the schema
MatchesSchema(content) ==
    /\ DOMAIN content = {"json"}
    /\ DOMAIN content.json = AllFields
    /\ content.json.category \in Categories
    /\ IsCanonicalDate(content.json.datePublished)
    /\ Len(content.json.imageUrl) <= 1

SummaryMessages == {m \in Range(messages) : m.type = "ai"}

\* C4: every summary message the summarize node produces, and every value
\* summarize_article returns, is the JSON of a record matching the schema:
\* category among the 15 values, datePublished as YYYY-MM-DD, imageUrl a string
\* or null, the other fields present.
C4_SummariesMatchSchema ==
    /\ \A m \in SummaryMessages : MatchesSchema(m.content)
    /\ returned # <<>> => MatchesSchema(returned[1])

\* C5: one run of the batch cell fetches the page exactly once, whatever the
\* number of agents, and invokes every agent on the same prompt message, built
\* from that fetch.
C5_OneFetchSamePrompt ==
    runner = "batch" =>
        /\ fetches = IF pc = "start" THEN 0 ELSE 1
        /\ \A k \in DOMAIN invocations :
              /\ invocations[k].input = <<HumanMessage(html)>>
              /\ invocations[k].agent = AGENTS[k]
        /\ pc = "done" => Len(invocations) = Len(AGENTS)

C5_Witness ==
    /\ runner = "batch"
    /\ pc = "done"
    /\ Len(AGENTS) >= 3

\* C6: summarize_article returns the content of the last message of the final
\* state: the summary JSON made by the summarize node of the "granite3.2" agent,
\* and never the prompt with the fetched HTML.
C6_UnitReturnsSummaryOnly ==
    returned # <<>> =>
        /\ runner = "unit"
        /\ Len(invocations) = 1
        /\ invocations[1].agent = "granite3.2"
        /\ returned[1] = messages[Len(messages)].content
        /\ returned[1] = model_dump_json(response)
        /\ returned[1] # prompt.content
        /\ Len(messages) = 2

C6_Witness ==
    /\ pc = "returned"
    /\ returned # <<>>
    /\ Len(AGENTS) >= 2

\* invocation k has run to its end
Completed(k) ==
    \/ k < Len(invocations)
    \/ gpc = "end"
    \/ pc \in {"loop", "done", "returned"}

\* the summarize node of the current invocation has returned its update
NodeReturned ==
    /\ invocations # <<>>
    /\ Len(messages) > Len(Last(invocations).input)

\* C7: every invocation of a compiled graph runs the summarize node once and
\* calls the model once, and when the node has returned nothing is left to run.
C7_OneNodeRunOneModelCall ==
    /\ \A k \in DOMAIN invocations :
          /\ invocations[k].node_runs <= 1
          /\ invocations[k].model_calls <= 1
          /\ Completed(k) =>
                invocations[k].node_runs = 1 /\ invocations[k].model_calls = 1
    /\ NodeReturned => next_nodes = {} /\ gpc \in {"emit", "end", "idle"}

C7_Witness ==
    /\ gpc = "end"
    /\ Last(invocations).node_runs = 1
    /\ Last(invocations).model_calls = 1

RunFailed == error # "none"

SummaryPrinted ==
    \E i \in DOMAIN stdout :
        stdout[i].kind = "message" /\ stdout[i].message.type = "ai"

\* the failure left the runner and nothing was tried again after it
PropagatedWithoutRetry ==
    /\ pc = "failed"
    /\ trace[Len(trace)].step = "raise"
    /\ Cardinality(Steps("raise")) = 1
    /\ fetches = 1
    /\ \A k \in DOMAIN invocations : invocations[k].model_calls <= 1

\* C8 as stated: a failed run has printed or returned no summary message
C8_FailedRunShowsNoSummary ==
    RunFailed =>
        /\ PropagatedWithoutRetry
        /\ returned = <<>>
        /\ ~SummaryPrinted

\* C8 amended: when the fetch, the model call or the validation fails, the
\* failure leaves the runner, nothing is attempted again, nothing is returned,
\* and the failing invocation prints no summary message; summaries that earlier
\* agents of a batch run printed before the failure stay printed.
C8_FailedInvocationShowsNoSummary ==
    RunFailed =>
        /\ PropagatedWithoutRetry
        /\ returned = <<>>
        /\ \A i \in Steps("print") \cup Steps("return") :
              trace[i].inv < trace[Len(trace)].inv
        /\ Cardinality(Steps("print")) = Cardinality(Steps("validate"))

C8_Witness ==
    /\ error = "ValidationError"
    /\ runner = "batch"
    /\ Len(invocations) = 2
    /\ SummaryPrinted

(***************************************************************************)
(* Properties of stream_and_pretty_print (SpecStream)                      *)
(***************************************************************************)
Max(a, b) == IF a >= b THEN a ELSE b

PrintedMessages == [i \in DOMAIN stdout |-> stdout[i].message]

\* C9: on a stream of snapshots that only grow by appending, the message at
\* index 0 is never printed, the messages at index >= 1 of the latest snapshot
\* have each been printed once, in index order, and after each chunk
\* message_index is max(1, number of messages of that chunk).
C9_PrintsLaterMessagesOnce ==
    /\ chunk_no = 0 => stdout = <<>>
    /\ chunk_no >= 1 =>
          /\ message_index = Max(1, Len(stream[chunk_no]))
          /\ PrintedMessages = SubSeq(stream[chunk_no], 2, Len(stream[chunk_no]))

C9_Witness ==
    /\ pc = "done"
    /\ Len(stream) >= 3
    /\ Len(stream[1]) = 2
    /\ Len(stream[2]) = 2
    /\ Len(stream[3]) = 4

(***************************************************************************)
(* Properties of the summarize node (SpecNode)                             *)
(***************************************************************************)
\* C10: the node reads only the latest message, and after it ran the message
\* list is the input list, unchanged and in order, followed by exactly one
\* appended AI message that holds the summary JSON.
C10_NodeAppendsOneMessage ==
    invocations # <<>> =>
        /\ gpc \in {"run", "model", "parse", "respond", "failed"} =>
              messages = invocations[1].input
        /\ gpc \in {"model", "parse", "respond", "end"} =>
              model_args = <<SystemMessage(Instruction),
                             SystemMessage(Last(invocations[1].input).content)>>
        /\ gpc = "end" =>
              /\ Len(messages) = Len(invocations[1].input) + 1
              /\ SubSeq(messages, 1, Len(messages) - 1) = invocations[1].input
              /\ Last(messages).type = "ai"
              /\ Last(messages).content = model_dump_json(response)
              /\ response = SummarySchema(answer, platform).record

C10_Witness ==
    /\ gpc = "end"
    /\ Len(invocations[1].input) = 3
    /\ invocations[1].input[1] # invocations[1].input[3]

====
